---------------------------- MODULE Spec2Model ----------------------------
(***************************************************************************)
(* Residents on-call scheduler: the CP-SAT constraint model built by       *)
(* cp_sat_generate_schedule (src/cp_sat.py) and the Streamlit front end    *)
(* that calls it (src/app.py).                                             *)
(*                                                                         *)
(* A day assignment is a function from day indices 0..m-1 to doctor        *)
(* indices, as the Python list day_vars is indexed.  The solver is the     *)
(* nondeterministic choice of any assignment that satisfies every          *)
(* constraint added to the model, or of giving up on the time limit.       *)
(***************************************************************************)
EXTENDS Integers, Sequences, FiniteSets, TLC

\* Bounds of the model: doctors 0..MaxN, month lengths 0..MaxM.
MaxN == 2
MaxM == 9

(***************************************************************************)
(* Arithmetic helpers with Python's meaning.                               *)
(***************************************************************************)
Min(a, b) == IF a <= b THEN a ELSE b

\* sum(x for x in ...) over 0/1 indicator values is written below as the
\* cardinality of the set of indices whose indicator is true.

\* range(k)
Range(k) == 0 .. (k - 1)

\* list.index(x) on a 1-indexed TLA+ sequence holding a Python list.
IndexOf(list, x) == (CHOOSE k \in 1 .. Len(list) : list[k] = x) - 1

(***************************************************************************)
(* Weekday tables.                                                         *)
(***************************************************************************)
\* cp_sat.py: days (Monday first)
days == <<"Monday", "Tuesday", "Wednesday", "Thursday", "Friday", "Saturday", "Sunday">>

\* app.py: weekdays, also the DataFrame's column headers (Sunday first)
weekdays == <<"Sunday", "Monday", "Tuesday", "Wednesday", "Thursday", "Friday", "Saturday">>

\* start_idx = days.index(start_day)
StartIdx(start_day) == IndexOf(days, start_day)

\* The variant a plausible slip yields: the core reading the name in the
\* app's Sunday-first table.
WeekendFridaysSundayFirst(start_day, m) ==
    {d \in Range(m) : (IndexOf(weekdays, start_day) + d) % 7 = IndexOf(days, "Friday")
                      /\ d + 1 < m}

\* weekend_fridays: the Friday index of every Friday/Saturday block that
\* lies inside the month.  The Python list is ascending, so block k is the
\* k-th element of this set; the model names a block by its Friday index.
WeekendFridays(start_day, m) ==
    {d \in Range(m) : (StartIdx(start_day) + d) % 7 = IndexOf(days, "Friday")
                      /\ d + 1 < m}

(***************************************************************************)
(* The constraint model, cp_sat.py lines 25-91.  s is a value of day_vars: *)
(* a function from Range(m) to the domain 0..n-1.                          *)
(***************************************************************************)
\* day_vars: m integer variables with domain [0, n-1].
DayVarValues(n, m) == [Range(m) -> Range(n)]

\* The value b[i, d] takes in a solution whose day_vars are s: the two
\* half-reified links (day == i if b, day != i if not b) leave exactly one.
b(s, i, d) == s[d] = i

\* The three half-reified links of w[i, k], d the Friday of block k.
WChannel(s, i, d, wv) ==
    /\ wv => s[d] = i
    /\ wv => s[d + 1] = i
    /\ ~wv => s[d] # i

\* Some value of w[i, k] satisfies its links.
WChannelFeasible(s, i, d) == \E wv \in BOOLEAN : WChannel(s, i, d, wv)

\* The value w[i, k] takes where its links are feasible: doctor i covers
\* both days of the block.
w(s, i, d) == s[d] = i /\ s[d + 1] = i

\* The variant with the bound off by one: four of four days allowed.
NoFourConsecutiveAtMostFour(n, m, s) ==
    \A i \in Range(n) : \A d \in Range(m - 3) :
        Cardinality({k \in Range(4) : b(s, i, d + k)}) <= 4

\* 1. No doctor on 4 consecutive days.
NoFourConsecutive(n, m, s) ==
    \A i \in Range(n) : \A d \in Range(m - 3) :
        Cardinality({k \in Range(4) : b(s, i, d + k)}) <= 3

\* 2a. Weekend coverage: same doctor on Fri & Sat.
WeekendSameDoctor(wf, s) == \A d \in wf : s[d] = s[d + 1]

\* AddMaxEquality(var, exprs) on BoolVars: var is the largest of exprs.
\* Over an empty list no value is the maximum: CP-SAT's presolve marks a
\* max constraint without expressions as false.
MaxEquality(var, exprs) ==
    /\ exprs # {}
    /\ var = (TRUE \in exprs)

\* Some value of weekend_used[i] satisfies its max equality.
WeekendUsedFeasible(wf, s, i) ==
    \E var \in BOOLEAN : MaxEquality(var, {w(s, i, d) : d \in wf})

\* The value weekend_used[i] takes.
weekend_used(wf, s, i) ==
    CHOOSE var \in BOOLEAN : MaxEquality(var, {w(s, i, d) : d \in wf})

\* The variant that forgets the number of weekends.
WeekendSpreadAllDoctors(total, n, W) == total = n

\* 2b. Distinct number of weekend doctors = min(n, #weekends).
WeekendSpread(total, n, W) == total = Min(n, W)

\* The same constraint relaxed to a lower bound.
WeekendSpreadAtLeast(total, n, W) == total >= Min(n, W)

\* Python's list indexing: a negative index counts from the end.
PyIndex(d, m) == IF d < 0 THEN d + m ELSE d

\* day_vars[d] raises IndexError.
IndexOutOfRange(d, m) == d < -m \/ d >= m

\* 3. Disallowed assignments: for i, d in disallowed_pairs.
Disallowed(pairs, m, s) ==
    \A p \in pairs : s[PyIndex(p[2], m)] # p[1]

\* 4a. Fair total assignment counts.
FairTotals(n, m, s) ==
    LET L == m \div n
        H == (m + n - 1) \div n
    IN \A i \in Range(n) :
          LET c == Cardinality({d \in Range(m) : b(s, i, d)})
          IN c >= L /\ c <= H

\* 4b. Every 3n-day window: each doctor at least once.
WindowCoverage(n, m, s) ==
    LET window_size == 3 * n
    IN m >= window_size =>
          \A i \in Range(n) : \A d \in Range(m - window_size + 1) :
              Cardinality({k \in Range(window_size) : b(s, i, d + k)}) >= 1

\* 4c. Fair weekend assignment distribution.
FairWeekends(n, wf, s) ==
    LET W == Cardinality(wf)
    IN W > 0 =>
          LET Lw == W \div n
              Hw == (W + n - 1) \div n
          IN \A i \in Range(n) :
                LET c == Cardinality({d \in wf : w(s, i, d)})
                IN c >= Lw /\ c <= Hw

\* sum(weekend_used)
WeekendDoctors(n, wf, s) == Cardinality({i \in Range(n) : weekend_used(wf, s, i)})

\* Every constraint of the model except the disallowed pairs and the
\* weekend spread; wf is weekend_fridays.  A conjunction: the constraints
\* are listed cheapest first, not in the order the code adds them.
StructuralOther(n, m, wf, s) ==
    /\ WeekendSameDoctor(wf, s)
    /\ \A i \in Range(n) : \A d \in wf : WChannelFeasible(s, i, d)
    /\ \A i \in Range(n) : WeekendUsedFeasible(wf, s, i)
    /\ FairTotals(n, m, s)
    /\ FairWeekends(n, wf, s)
    /\ NoFourConsecutive(n, m, s)
    /\ WindowCoverage(n, m, s)

\* Every constraint of the model except the disallowed pairs.
Structural(n, m, wf, s) ==
    /\ StructuralOther(n, m, wf, s)
    /\ WeekendSpread(WeekendDoctors(n, wf, s), n, Cardinality(wf))

\* The model with the weekend spread relaxed to a lower bound.
StructuralRelaxed(n, m, wf, s) ==
    /\ StructuralOther(n, m, wf, s)
    /\ WeekendSpreadAtLeast(WeekendDoctors(n, wf, s), n, Cardinality(wf))

\* s satisfies every constraint added to the model.
Constraints(n, m, wf, pairs, s) ==
    /\ Disallowed(pairs, m, s)
    /\ Structural(n, m, wf, s)

(***************************************************************************)
(* Reference data, cp_sat.py lines 107-171.  Python lists are written as   *)
(* sequences; FromList gives them the 0-based indexing of day_vars.        *)
(***************************************************************************)
examples ==
  <<
    [num_doctors |-> 3,
     month_length |-> 30,
     month_start_day |-> "Friday",
     disallowed_pairs |->
        { <<0, 5>>, <<0, 12>>, <<0, 19>>, <<0, 26>>, <<2, 2>>, <<2, 9>>,
          <<2, 16>>, <<2, 23>>, <<2, 4>>, <<2, 11>>, <<2, 18>>, <<2, 25>>,
          <<1, 0>>, <<1, 1>>, <<1, 28>>, <<1, 29>> },
     valid_schedule |->
       << 0, 0, 1, 1, 0, 2, 0, 1, 2, 0, 0, 0, 2, 2, 1, 1, 1, 2, 0, 2, 1, 0,
          2, 1, 2, 1, 1, 0, 2, 2 >>,
     invalid_schedule |->
       << 0, 0, 1, 1, 0, 2, 0, 0, 2, 0, 0, 0, 2, 2, 1, 1, 1, 2, 0, 2, 0, 1,
          2, 1, 2, 1, 1, 1, 2, 2 >>],
    [num_doctors |-> 4,
     month_length |-> 30,
     month_start_day |-> "Sunday",
     disallowed_pairs |->
        { <<0, 2>>, <<0, 9>>, <<0, 16>>, <<0, 23>>, <<1, 4>>, <<1, 11>>,
          <<1, 18>>, <<1, 25>>, <<2, 4>>, <<2, 11>>, <<2, 18>>, <<2, 25>>,
          <<3, 3>>, <<3, 10>>, <<3, 17>>, <<3, 24>> },
     valid_schedule |->
       << 0, 1, 1, 2, 0, 2, 2, 3, 2, 3, 0, 3, 1, 1, 1, 0, 2, 0, 3, 3, 3, 1,
          3, 1, 1, 3, 0, 0, 2, 2 >>,
     invalid_schedule |->
       << 0, 1, 1, 2, 0, 2, 2, 3, 2, 3, 0, 3, 3, 1, 1, 0, 2, 0, 3, 1, 3, 1,
          3, 1, 1, 3, 0, 0, 2, 0 >>],
    [num_doctors |-> 5,
     month_length |-> 31,
     month_start_day |-> "Sunday",
     disallowed_pairs |->
        { <<0, 1>>, <<0, 8>>, <<0, 15>>, <<0, 22>>, <<0, 29>>, <<0, 4>>,
          <<0, 11>>, <<0, 18>>, <<0, 25>>, <<1, 0>>, <<1, 7>>, <<1, 14>>,
          <<1, 21>>, <<1, 28>>, <<1, 4>>, <<1, 11>>, <<1, 18>>, <<1, 25>>,
          <<2, 1>>, <<2, 8>>, <<2, 15>>, <<2, 22>>, <<2, 29>>, <<3, 2>>,
          <<3, 9>>, <<3, 16>>, <<3, 23>>, <<3, 30>>, <<3, 3>>, <<3, 10>>,
          <<3, 17>>, <<3, 24>>, <<4, 3>>, <<4, 10>>, <<4, 17>>, <<4, 24>> },
     valid_schedule |->
       << 0, 1, 2, 1, 3, 2, 2, 4, 1, 0, 2, 4, 3, 3, 0, 3, 4, 1, 2, 1, 1, 2,
          3, 4, 0, 4, 0, 0, 4, 3, 4 >>,
     invalid_schedule |->
       << 0, 0, 0, 0, 0, 0, 0, 1, 1, 1, 1, 1, 1, 1, 2, 2, 2, 2, 2, 2, 2, 3,
          3, 3, 3, 3, 3, 3, 4, 4, 4 >>]
  >>

FromList(list) == [d \in Range(Len(list)) |-> list[d + 1]]

ExampleSchedule(e, kind) ==
    FromList(IF kind = "valid" THEN examples[e].valid_schedule
             ELSE examples[e].invalid_schedule)

(***************************************************************************)
(* The set of constraints a candidate breaks, named by the number of the   *)
(* invariant each constraint group enforces: 2 disallowed pairs, 3 no four *)
(* consecutive days, 4 weekend pairing (the links of w and constraint 2a), *)
(* 5 weekend spread, 6 fair totals, 7 window coverage, 8 fair weekends.    *)
(***************************************************************************)
Violated(n, m, wf, pairs, s) ==
       {c \in 2 .. 8 :
          \/ c = 2 /\ ~Disallowed(pairs, m, s)
          \/ c = 3 /\ ~NoFourConsecutive(n, m, s)
          \/ c = 4 /\ ~(/\ \A i \in Range(n) : \A d \in wf : WChannelFeasible(s, i, d)
                        /\ WeekendSameDoctor(wf, s))
          \/ c = 5 /\ ~(/\ \A i \in Range(n) : WeekendUsedFeasible(wf, s, i)
                        /\ WeekendSpread(WeekendDoctors(n, wf, s), n, Cardinality(wf)))
          \/ c = 6 /\ ~FairTotals(n, m, s)
          \/ c = 7 /\ ~WindowCoverage(n, m, s)
          \/ c = 8 /\ ~FairWeekends(n, wf, s)}

(***************************************************************************)
(* The end of cp_sat_generate_schedule, lines 100-104.                     *)
(***************************************************************************)
\* The variant that hands back an empty list where the code raises.
CoreResultNoRaise(st, s) ==
    IF st \notin {"OPTIMAL", "FEASIBLE"}
    THEN [outcome |-> "returned", value |-> <<>>]
    ELSE [outcome |-> "returned", value |-> s]

\* if status not in (OPTIMAL, FEASIBLE): raise RuntimeError; else return.
CoreResult(st, s) ==
    IF st \notin {"OPTIMAL", "FEASIBLE"}
    THEN [outcome |-> "RuntimeError", value |-> <<>>]
    ELSE [outcome |-> "returned", value |-> s]

(***************************************************************************)
(* The front end, app.py.                                                  *)
(***************************************************************************)
\* A grid cell: None, or the doctor index (or placeholder) it holds.
NoneCell == <<>>
Cell(person) == <<person>>

\* st.session_state.schedule_df = None
NoDataFrame == <<>>

\* disallowed_pairs = [(int(day.split("/")[0]) - 1, doctor_index) for ...]:
\* an option "d/month - Weekday" is kept here as its day number d.
OffDaysToPairs(off) ==
    UNION {{<<day - 1, doctor_index>> : day \in off[doctor_index]} :
              doctor_index \in DOMAIN off}

\* if solution: (a list is true when it is not empty)
Truthy(list) == DOMAIN list # {}

\* The variant with the test inverted.
ScheduleOfInverted(solution_, days_in_month) ==
    IF ~Truthy(solution_) THEN solution_
    ELSE [d \in Range(days_in_month) |-> -1]

\* schedule = [-1 for _ in range(days_in_month)]; if solution: schedule = solution
ScheduleOf(solution_, days_in_month) ==
    IF Truthy(solution_) THEN solution_
    ELSE [d \in Range(days_in_month) |-> -1]

\* for day, person in enumerate(schedule, start=1): open a new week when
\* the last one is full, then append.
RECURSIVE AppendPersons(_, _, _)
AppendPersons(weeks, schedule, d) ==
    IF d \notin DOMAIN schedule THEN weeks
    ELSE LET opened == IF Len(weeks[Len(weeks)]) = 7
                       THEN Append(weeks, <<>>) ELSE weeks
             last == Len(opened)
         IN AppendPersons([opened EXCEPT ![last] = Append(@, Cell(schedule[d]))],
                          schedule, d + 1)

\* while len(weeks[-1]) < 7: weeks[-1].append(None)
RECURSIVE PadLastWeek(_)
PadLastWeek(weeks) ==
    IF Len(weeks[Len(weeks)]) < 7
    THEN PadLastWeek([weeks EXCEPT ![Len(weeks)] = Append(@, NoneCell)])
    ELSE weeks

\* The variant that leaves out the leading empty slots.
WeeksUnaligned(starting_day_, schedule) ==
    PadLastWeek(AppendPersons(<<<<>>>>, schedule, 0))

\* The rows of the DataFrame generate_schedule returns; its columns are
\* weekdays, in order.
Weeks(starting_day_, schedule) ==
    PadLastWeek(AppendPersons(<<[k \in 1 .. starting_day_ |-> NoneCell]>>, schedule, 0))

(***************************************************************************)
(* Inputs.                                                                 *)
(***************************************************************************)
\* Day indices tried in a single forbidden pair: both ends of the month
\* and one step outside it on either side.
DayProbes(m) == {-1, 0, m - 1, m}

\* Doctor indices tried in a single forbidden pair: the first and the last
\* doctor and one step outside the range on either side.
DoctorProbes(n) == {-1, 0, n - 1, n}

\* Forbidden-pair lists of a direct call: none, one pair (doctor and day in
\* range or just outside), or one doctor forbidden on every day.
PairInputs(n, m) ==
    {{}}
    \cup {{<<i, d>>} : i \in DoctorProbes(n), d \in DayProbes(m)}
    \cup {{<<i, d>> : d \in Range(m)} : i \in Range(n)}

\* Day numbers offered for a single off-day selection.
OffDayProbes(m) == {1, m}

\* Off-day selections in the front end: none, one day of one doctor, or
\* every day of one doctor.
OffDayInputs(n, m) ==
    {[i \in Range(n) |-> {}]}
    \cup {[i \in Range(n) |-> IF i = j THEN {day} ELSE {}] :
             j \in Range(n), day \in OffDayProbes(m)}
    \cup {[i \in Range(n) |-> IF i = j THEN 1 .. m ELSE {}] : j \in Range(n)}

(***************************************************************************)
(* State.                                                                  *)
(***************************************************************************)
VARIABLES
    caller,            \* "direct": a call of the core; "app": the front end;
                       \* "example": a reference example under validation
    pc,                \* position in the call
    n,                 \* num_doctors
    m,                 \* days_in_month / month length
    starting_day,      \* app.py: Sunday-first index of the month's first day
    start_day,         \* cp_sat.py: name of the weekday the month starts on
    off_days,          \* app.py: doctor index -> selected day numbers
    disallowed_pairs,  \* the list handed to the core, read as (i, d)
    weekend_fridays,   \* cp_sat.py: Friday indices of the weekend blocks
    status,            \* solver status
    outcome,           \* how the core's call ended
    solution,          \* the list the core returned
    schedule_df,       \* st.session_state.schedule_df
    example,           \* index of the reference example, 0 when none
    kind,              \* "valid" / "invalid" schedule of the example
    verdict            \* constraints the example's schedule breaks

vars == <<caller, pc, n, m, starting_day, start_day, off_days, disallowed_pairs,
          weekend_fridays, status, outcome, solution, schedule_df, example,
          kind, verdict>>

NoResult ==
    /\ weekend_fridays = {}
    /\ status = "none"
    /\ outcome = "none"
    /\ solution = <<>>
    /\ schedule_df = NoDataFrame
    /\ verdict = {}

\* A direct call cp_sat_generate_schedule(n, m, start_day, disallowed_pairs).
InitDirect ==
    /\ caller = "direct"
    /\ pc = "call"
    /\ n \in 0 .. MaxN
    /\ m \in 0 .. MaxM
    /\ starting_day = -1
    /\ start_day \in {days[k] : k \in 1 .. 7}
    /\ off_days = <<>>
    /\ disallowed_pairs \in PairInputs(n, m)
    /\ example = 0
    /\ kind = "none"
    /\ NoResult

\* The front end after the inputs are entered (number_input has min_value 1;
\* the month length is scaled down to the bound).
InitApp ==
    /\ caller = "app"
    /\ pc = "idle"
    /\ n \in 1 .. MaxN
    /\ m \in 1 .. MaxM
    /\ starting_day \in 0 .. 6
    /\ start_day = "none"
    /\ off_days \in OffDayInputs(n, m)
    /\ disallowed_pairs = {}
    /\ example = 0
    /\ kind = "none"
    /\ NoResult

\* One schedule of one reference example, with the example's parameters.
InitExample ==
    /\ caller = "example"
    /\ pc = "example"
    /\ example \in 1 .. Len(examples)
    /\ kind \in {"valid", "invalid"}
    /\ n = examples[example].num_doctors
    /\ m = examples[example].month_length
    /\ starting_day = -1
    /\ start_day = examples[example].month_start_day
    /\ off_days = <<>>
    /\ disallowed_pairs = examples[example].disallowed_pairs
    /\ NoResult

Init == InitDirect \/ InitApp \/ InitExample

(***************************************************************************)
(* Actions.                                                                *)
(***************************************************************************)
\* app.py 132-139 and 12-16: the Generate Schedule button converts the
\* off-days and generate_schedule names the starting weekday for the core.
ButtonGenerate ==
    /\ caller = "app"
    /\ pc = "idle"
    /\ disallowed_pairs' = OffDaysToPairs(off_days)
    /\ start_day' = weekdays[starting_day + 1]
    /\ pc' = "call"
    /\ UNCHANGED <<caller, n, m, starting_day, off_days, weekend_fridays, status,
                   outcome, solution, schedule_df, example, kind, verdict>>

\* cp_sat.py 16-91: building the model.  Indexing day_vars with a day
\* outside [-m, m) raises IndexError (line 66); m // n raises
\* ZeroDivisionError for n = 0 (line 69).  Nothing else is checked.
BuildModel ==
    /\ caller \in {"direct", "app"}
    /\ pc = "call"
    /\ IF \E p \in disallowed_pairs : IndexOutOfRange(p[2], m)
       THEN /\ outcome' = "IndexError"
            /\ pc' = "raised"
            /\ UNCHANGED weekend_fridays
       ELSE IF n = 0
       THEN /\ outcome' = "ZeroDivisionError"
            /\ pc' = "raised"
            /\ UNCHANGED weekend_fridays
       ELSE /\ weekend_fridays' = WeekendFridays(start_day, m)
            /\ pc' = "built"
            /\ UNCHANGED outcome
    /\ UNCHANGED <<caller, n, m, starting_day, start_day, off_days,
                   disallowed_pairs, status, solution, schedule_df, example,
                   kind, verdict>>

\* cp_sat.py 93-104: what the call leaves behind once solver.Solve has
\* answered st, holding the values s of day_vars.
Finish(st, s) ==
    LET r == CoreResult(st, s)
    IN /\ status' = st
       /\ outcome' = r.outcome
       /\ solution' = r.value
       /\ pc' = IF r.outcome = "returned" THEN "returned" ELSE "raised"
       /\ UNCHANGED <<caller, n, m, starting_day, start_day, off_days,
                      disallowed_pairs, weekend_fridays, schedule_df, example,
                      kind, verdict>>

\* The search ends with an assignment that satisfies every constraint.
SolveFound ==
    /\ pc = "built"
    /\ \E s \in DayVarValues(n, m) :
          /\ Constraints(n, m, weekend_fridays, disallowed_pairs, s)
          /\ \E st \in {"OPTIMAL", "FEASIBLE"} : Finish(st, s)

\* The search proves that no assignment satisfies the constraints.
SolveInfeasible ==
    /\ pc = "built"
    /\ ~\E s \in DayVarValues(n, m) :
           Constraints(n, m, weekend_fridays, disallowed_pairs, s)
    /\ Finish("INFEASIBLE", <<>>)

\* max_time_in_seconds elapses before the search has settled either way.
SolveTimeout ==
    /\ pc = "built"
    /\ Finish("UNKNOWN", <<>>)

\* app.py 18-39 and 139: the returned list becomes the calendar grid, which
\* is stored in the session state.  (A raise in the core leaves
\* generate_schedule and the button handler at once: nothing is stored.)
RenderGrid ==
    /\ caller = "app"
    /\ pc = "returned"
    /\ schedule_df' = Weeks(starting_day, ScheduleOf(solution, m))
    /\ pc' = "stored"
    /\ UNCHANGED <<caller, n, m, starting_day, start_day, off_days,
                   disallowed_pairs, weekend_fridays, status, outcome, solution,
                   example, kind, verdict>>

\* The constraint set applied to a reference schedule.
ValidateExample ==
    /\ caller = "example"
    /\ pc = "example"
    /\ verdict' = Violated(n, m, WeekendFridays(start_day, m), disallowed_pairs,
                           ExampleSchedule(example, kind))
    /\ weekend_fridays' = WeekendFridays(start_day, m)
    /\ pc' = "validated"
    /\ UNCHANGED <<caller, n, m, starting_day, start_day, off_days,
                   disallowed_pairs, status, outcome, solution, schedule_df,
                   example, kind>>

Next ==
    \/ ButtonGenerate
    \/ BuildModel
    \/ SolveFound
    \/ SolveInfeasible
    \/ SolveTimeout
    \/ RenderGrid
    \/ ValidateExample

Spec == Init /\ [][Next]_vars


(***************************************************************************)
(* The invariants of a schedule as the specification words them, written   *)
(* over the day sequence alone (no indicator variables).                   *)
(***************************************************************************)
\* weekday(d) = (starting weekday + d) mod 7, as a name.
Weekday(start, d) == weekdays[((IndexOf(weekdays, start) + d) % 7) + 1]

\* Friday indices of the weekend blocks: a Friday followed, inside the
\* month, by its Saturday.
BlockFridays(start, m_) ==
    {d \in Range(m_) : Weekday(start, d) = "Friday" /\ d + 1 < m_}

Floor(x, k) == x \div k
Ceil(x, k) == IF x % k = 0 THEN x \div k ELSE (x \div k) + 1

PairsInRange(pairs, n_, m_) ==
    \A p \in pairs : p[1] \in Range(n_) /\ p[2] \in Range(m_)

\* Blocks doctor i covers: both days are i's.
BlocksOf(F, s, i) == {f \in F : s[f] = i /\ s[f + 1] = i}

Inv2(pairs, s) == \A p \in pairs : s[p[2]] # p[1]

Inv3(m_, s) ==
    ~\E d \in 0 .. (m_ - 4) :
        s[d] = s[d + 1] /\ s[d + 1] = s[d + 2] /\ s[d + 2] = s[d + 3]

Inv4(F, s) == \A f \in F : s[f] = s[f + 1]

Inv5(n_, F, s) ==
    Cardinality({i \in Range(n_) : BlocksOf(F, s, i) # {}}) = Min(n_, Cardinality(F))

Inv6(n_, m_, s) ==
    \A i \in Range(n_) :
        Cardinality({d \in Range(m_) : s[d] = i}) \in Floor(m_, n_) .. Ceil(m_, n_)

Inv7(n_, m_, s) ==
    m_ >= 3 * n_ =>
        \A first \in 0 .. (m_ - 3 * n_) : \A i \in Range(n_) :
            \E d \in first .. (first + 3 * n_ - 1) : s[d] = i

Inv8(n_, F, s) ==
    Cardinality(F) > 0 =>
        \A i \in Range(n_) :
            Cardinality(BlocksOf(F, s, i))
                \in Floor(Cardinality(F), n_) .. Ceil(Cardinality(F), n_)

Invariants2to8(n_, m_, start, pairs, s) ==
    LET F == BlockFridays(start, m_)
    IN /\ Inv2(pairs, s)
       /\ Inv3(m_, s)
       /\ Inv4(F, s)
       /\ Inv5(n_, F, s)
       /\ Inv6(n_, m_, s)
       /\ Inv7(n_, m_, s)
       /\ Inv8(n_, F, s)

Returned == caller \in {"direct", "app"} /\ outcome = "returned"

(***************************************************************************)
(* C1.  Every sequence cp_sat_generate_schedule returns for n >= 1,        *)
(* m >= 1 and in-range forbidden pairs satisfies invariants 2-8: no        *)
(* forbidden assignment, no doctor on 4 consecutive days, one doctor per   *)
(* Friday/Saturday block, exactly min(n, W) distinct weekend doctors,      *)
(* per-doctor day count in [floor(m/n), ceil(m/n)], every doctor in every  *)
(* 3n-day window when m >= 3n, and per-doctor block count in               *)
(* [floor(W/n), ceil(W/n)] when W > 0.                                     *)
(***************************************************************************)
C1_ReturnedSatisfiesInvariants ==
    (Returned /\ n >= 1 /\ m >= 1 /\ PairsInRange(disallowed_pairs, n, m))
        => /\ DOMAIN solution = Range(m)
           /\ \A d \in Range(m) : solution[d] \in Range(n)
           /\ Invariants2to8(n, m, start_day, disallowed_pairs, solution)

\* A returned schedule for two doctors over a month with two weekend
\* blocks, a 3n-day window and a forbidden pair.
C1_Witness ==
    /\ Returned
    /\ n = 2
    /\ m >= 3 * n
    /\ Cardinality(weekend_fridays) = 2
    /\ disallowed_pairs # {}
    /\ PairsInRange(disallowed_pairs, n, m)

(***************************************************************************)
(* C2.  Through the app: when the user selects day number d (1-based) as   *)
(* an off-day for doctor i, no generated schedule assigns doctor i to day  *)
(* index d-1.                                                              *)
(***************************************************************************)
C2_OffDaysRespected ==
    (caller = "app" /\ pc = "stored")
        => \A i \in DOMAIN off_days : \A day \in off_days[i] :
              solution[day - 1] # i

(***************************************************************************)
(* C3.  The valid_schedule of each of the three reference examples breaks  *)
(* none of the constraints and satisfies invariants 2-8 under that         *)
(* example's parameters.                                                   *)
(***************************************************************************)
C3_ValidExamplesAccepted ==
    (pc = "validated" /\ kind = "valid")
        => /\ verdict = {}
           /\ Invariants2to8(n, m, start_day, disallowed_pairs,
                             ExampleSchedule(example, kind))

(***************************************************************************)
(* C4.  The invalid_schedule of each reference example breaks at least one *)
(* of invariants 2-8; example 1's breaks no-long-run (3) or weekend        *)
(* pairing (4); example 3's breaks no-long-run (3), load fairness (6) and  *)
(* window coverage (7) together.                                           *)
(***************************************************************************)
C4_InvalidExamplesRejected ==
    (pc = "validated" /\ kind = "invalid")
        => /\ verdict # {}
           /\ ~Invariants2to8(n, m, start_day, disallowed_pairs,
                              ExampleSchedule(example, kind))
           /\ example = 1 => (3 \in verdict \/ 4 \in verdict)
           /\ example = 3 => {3, 6, 7} \subseteq verdict

C4_Witness == pc = "validated" /\ kind = "invalid" /\ example = 3 /\ 3 \in verdict

(***************************************************************************)
(* C5.  When some doctor is forbidden on every day of the month and        *)
(* m >= n, the call never returns a sequence: it ends by raising, with     *)
(* nothing returned.                                                       *)
(***************************************************************************)
SomeDoctorForbiddenEveryDay ==
    \E i \in Range(n) : \A d \in Range(m) : <<i, d>> \in disallowed_pairs

C5_FullyForbiddenDoctorFails ==
    (caller \in {"direct", "app"} /\ n >= 1 /\ m >= n /\ SomeDoctorForbiddenEveryDay)
        => /\ outcome # "returned"
           /\ solution = <<>>
           /\ pc \in {"call", "built", "raised"}
           /\ status \in {"none", "INFEASIBLE", "UNKNOWN"}

\* n = 2, m = 5, doctor 0 forbidden on days 0..4: proven infeasible.
C5_Witness ==
    /\ n = 2
    /\ m = 5
    /\ disallowed_pairs = {<<0, d>> : d \in 0 .. 4}
    /\ pc = "raised"
    /\ status = "INFEASIBLE"
    /\ outcome = "RuntimeError"

(***************************************************************************)
(* C6.  What the caller gets when the time budget elapses (status UNKNOWN) *)
(* differs from what it gets when infeasibility is proven (INFEASIBLE).    *)
(***************************************************************************)
C6_TimeoutDistinctFromInfeasible ==
    (pc = "raised" /\ status = "UNKNOWN")
        => [outcome |-> outcome, value |-> solution] # CoreResult("INFEASIBLE", <<>>)

(***************************************************************************)
(* C7.  A call with n < 1, m < 1 or a forbidden pair whose doctor index is *)
(* outside [0, n) or whose day index is outside [0, m) ends in an error    *)
(* raised while the model is built, before any search; it is never         *)
(* accepted and solved.                                                    *)
(***************************************************************************)
InvalidParameters ==
    \/ n < 1
    \/ m < 1
    \/ ~PairsInRange(disallowed_pairs, n, m)

C7_InvalidParametersRejected ==
    (caller \in {"direct", "app"} /\ InvalidParameters /\ pc \in {"raised", "returned", "stored"})
        => /\ status = "none"
           /\ outcome \in {"IndexError", "ZeroDivisionError"}

(***************************************************************************)
(* C8.  In the app the placeholder schedule of -1 values is never          *)
(* rendered or stored: when the core fails no grid is stored, and when it  *)
(* succeeds the grid holds exactly the returned sequence.                  *)
(***************************************************************************)
RECURSIVE Flatten(_)
Flatten(rows) == IF rows = <<>> THEN <<>> ELSE Head(rows) \o Flatten(Tail(rows))

\* The cells of the grid that hold a value, in reading order.
RECURSIVE Values(_)
Values(cells) ==
    IF cells = <<>> THEN <<>>
    ELSE IF Head(cells) = NoneCell THEN Values(Tail(cells))
    ELSE <<Head(cells)[1]>> \o Values(Tail(cells))

C8_PlaceholderNeverStored ==
    caller = "app"
        => /\ pc \in {"idle", "call", "built", "raised", "returned"}
              => schedule_df = NoDataFrame
           /\ pc = "raised" => outcome \in {"RuntimeError", "IndexError", "ZeroDivisionError"}
           /\ pc = "stored"
              => /\ outcome = "returned"
                 /\ \A r \in 1 .. Len(schedule_df) : Len(schedule_df[r]) = 7
                 /\ Values(Flatten(schedule_df)) = [k \in 1 .. m |-> solution[k - 1]]
                 /\ \A k \in 1 .. m : Values(Flatten(schedule_df))[k] # -1

C8_Witness ==
    /\ caller = "app"
    /\ pc = "stored"
    /\ Len(schedule_df) >= 2
    /\ starting_day > 0

(***************************************************************************)
(* C9 (as claimed).  Relaxing the weekend-spread constraint from           *)
(* "distinct weekend doctors == min(n, W)" to ">= min(n, W)" alters the    *)
(* solution set: for some n, m, starting weekday and forbidden pairs some  *)
(* assignment satisfies the relaxed model and not the original one.        *)
(***************************************************************************)
C9_RelaxationAltersSolutions ==
    \E nn \in 1 .. MaxN : \E mm \in 1 .. MaxM : \E k \in 1 .. 7 :
        \E pairs \in {ps \in PairInputs(nn, mm) : PairsInRange(ps, nn, mm)} :
            \E s \in DayVarValues(nn, mm) :
                LET wf == WeekendFridays(days[k], mm)
                IN /\ Disallowed(pairs, mm, s)
                   /\ StructuralRelaxed(nn, mm, wf, s)
                   /\ ~Constraints(nn, mm, wf, pairs, s)

(***************************************************************************)
(* C9 (amended).  Relaxing the weekend-spread constraint to ">=" leaves    *)
(* the solution set as it is: for the parameters of every model built, an  *)
(* assignment satisfies the relaxed model exactly when it satisfies the    *)
(* original one.  The two models share every constraint but the spread, so *)
(* the equivalence is stated for the assignments that satisfy the shared   *)
(* constraints: on those the relaxed spread holds exactly when the         *)
(* original spread does.                                                   *)
(***************************************************************************)
C9_RelaxationKeepsSolutions ==
    pc = "built"
        => \A s \in DayVarValues(n, m) :
              (/\ Disallowed(disallowed_pairs, m, s)
               /\ StructuralOther(n, m, weekend_fridays, s))
                  => LET total == WeekendDoctors(n, weekend_fridays, s)
                         W == Cardinality(weekend_fridays)
                     IN WeekendSpreadAtLeast(total, n, W)
                            <=> WeekendSpread(total, n, W)

\* A model with fewer weekend blocks than doctors that has a solution.
C9_Witness ==
    /\ Returned
    /\ Cardinality(weekend_fridays) = 1
    /\ n = 2
    /\ StructuralRelaxed(n, m, weekend_fridays, solution)

(***************************************************************************)
(* C10.  For every starting_day in 0..6 (Sunday = 0) and every day index   *)
(* d: the core treats d as the Friday of a weekend block exactly when      *)
(* d + 1 < m and the calendar grid places day d in the Friday column, with *)
(* d + 1 in the Saturday column of the same row; the app's index, the name *)
(* passed and the core's index agree with weekday(d) = (start + d) mod 7.  *)
(***************************************************************************)
\* Reading-order position (from 0) of the cell holding day d: the
\* (d+1)-th cell of the grid that is not None.
CellOfDay(df, d) ==
    LET cells == Flatten(df)
        filled == {q \in 1 .. Len(cells) : cells[q] # NoneCell}
    IN (CHOOSE q \in filled : Cardinality({x \in filled : x < q}) = d) - 1

ColumnOfDay(df, d) == weekdays[(CellOfDay(df, d) % 7) + 1]
RowOfDay(df, d) == CellOfDay(df, d) \div 7

C10_WeekdaysAgree ==
    (caller = "app" /\ pc = "stored")
        => \A d \in Range(m) :
              /\ ColumnOfDay(schedule_df, d) = weekdays[((starting_day + d) % 7) + 1]
              /\ ColumnOfDay(schedule_df, d) = days[((StartIdx(start_day) + d) % 7) + 1]
              /\ d \in weekend_fridays
                    <=> (d + 1 < m /\ ColumnOfDay(schedule_df, d) = "Friday")
              /\ d \in weekend_fridays
                    => /\ ColumnOfDay(schedule_df, d + 1) = "Saturday"
                       /\ RowOfDay(schedule_df, d + 1) = RowOfDay(schedule_df, d)

\* A stored grid of a month that starts mid-week and holds a weekend block.
C10_Witness ==
    /\ caller = "app"
    /\ pc = "stored"
    /\ starting_day = 3
    /\ weekend_fridays # {}
    /\ m >= 8

=============================================================================
